---------------------------- MODULE Spec2Model ----------------------------
(***************************************************************************)
(* A model of the book-generation driver (src/write.py).                   *)
(*                                                                         *)
(* Text is modelled as a sequence of one-character strings; the literals   *)
(* the driver writes ("### Chapter ", newlines) are single elements of     *)
(* such sequences.  The host is a POSIX system: os.rename replaces an      *)
(* existing destination.  Three specifications share the variables:        *)
(*   Spec        the run driver main(), over several runs of the program;  *)
(*   SpecClient  the stream consumer of call_ollama_api, line by line;     *)
(*   SpecCount   the integer extraction of count_words_with_ollama.        *)
(***************************************************************************)
EXTENDS Integers, Sequences, FiniteSets, TLC

VARIABLES
    \* ---- the file system and the clock (shared by successive runs)
    now,               \* the clock, in whole seconds (strftime's resolution)
    book,              \* book.txt: [exists, data]
    archives,          \* book_<timestamp>.txt files: a set of [name, data]
    inputTxt,          \* input.txt: [exists, data]
    outlineTxt,        \* outline.txt: [exists, rows], rows as csv.reader yields them
    \* ---- one run of main()
    runs,              \* number of runs started so far
    pc,                \* position of the current run in main()
    book_summary,
    chapters,
    total_chapters,
    chapters_written,
    word_count,
    book_so_far,       \* the context read for the chapter generated last
    final_summary,     \* [printed, text]
    exitStatus,        \* the process exit status, -1 while running
    endCause,          \* how the run ended, "" while running
    callLog,           \* history: the inference calls issued in this run
    lastCall,          \* history: [sawDone] of the call that returned last
    \* ---- call_ollama_api, line by line (SpecClient)
    cl_pc,
    cl_lines,          \* the lines response.iter_lines() will yield
    cl_pos,            \* index of the next line
    generated_text,
    cl_result,
    \* ---- count_words_with_ollama (SpecCount)
    wc_pc,
    generated_response,
    wc_result

fsVars     == <<now, book, archives, inputTxt, outlineTxt>>
runVars    == <<runs, pc, book_summary, chapters, total_chapters, chapters_written,
                word_count, book_so_far, final_summary, exitStatus, endCause,
                callLog, lastCall>>
clientVars == <<cl_pc, cl_lines, cl_pos, generated_text, cl_result>>
countVars  == <<wc_pc, generated_response, wc_result>>
vars       == <<fsVars, runVars, clientVars, countVars>>

---------------------------------------------------------------------------
(* Bounds of the model *)

MaxLines == 3      \* lines in a stream explored by SpecClient
MaxLen   == 3      \* characters in a word-count response explored by SpecCount
MaxRows  == 2      \* rows in outline.txt
MaxRuns  == 2      \* runs of the program
MaxTime  == 1      \* latest second at which a run may start

---------------------------------------------------------------------------
(* Strings *)

RECURSIVE SeqsUpTo(_, _)
SeqsUpTo(S, n) ==
    IF n = 0 THEN {<<>>}
    ELSE LET shorter == SeqsUpTo(S, n - 1)
         IN  shorter \cup {Append(s, x) : s \in {t \in shorter : Len(t) = n - 1}, x \in S}

Whitespace == {" ", "\n"}

RECURSIVE LStrip(_)
LStrip(s) == IF s = <<>> \/ Head(s) \notin Whitespace THEN s ELSE LStrip(Tail(s))

RECURSIVE RStrip(_)
RStrip(s) ==
    IF s = <<>> \/ s[Len(s)] \notin Whitespace THEN s
    ELSE RStrip(SubSeq(s, 1, Len(s) - 1))

\* str.strip()
Strip(s) == RStrip(LStrip(s))

---------------------------------------------------------------------------
(* call_ollama_api: the lines of the streamed response *)

\* One line of the stream, as json.loads sees it.
\*   kind: "empty"     an empty line (keep-alive)
\*         "invalid"   not JSON: json.loads raises JSONDecodeError
\*         "object"    a JSON object
\*         "nonobject" valid JSON that is no object (array, number, string, null)
\*   resp: "absent" | "string" | "nonstring"  the "response" member
\*   done: "absent" | "true" | "false" | "nonbool"  the "done" member
Line(kind, resp, text, done) == [kind |-> kind, resp |-> resp, text |-> text, done |-> done]

EmptyLine   == Line("empty", "absent", <<>>, "absent")
InvalidJson == Line("invalid", "absent", <<>>, "absent")
NonObject   == Line("nonobject", "absent", <<>>, "absent")
Frag(text)            == Line("object", "string", text, "absent")
FragDone(text, done)  == Line("object", "string", text, done)
DoneOnly              == Line("object", "absent", <<>>, "true")
NullResponse          == Line("object", "nonstring", <<>>, "absent")

\* ProcessLine with a fault: done is tested before the response is appended
ProcessLineBreakFirst(text, line) ==
    IF line.kind = "empty" \/ line.kind = "invalid" THEN [text |-> text, ctl |-> "continue"]
    ELSE IF line.kind = "nonobject" \/ line.resp = "nonstring" THEN [text |-> text, ctl |-> "raise"]
    ELSE IF line.done = "true" THEN [text |-> text, ctl |-> "break"]
    ELSE [text |-> IF line.resp = "string" THEN text \o line.text ELSE text, ctl |-> "continue"]

\* the body of the for loop over response.iter_lines(), for one line:
\* the text accumulated after it and how the loop goes on
ProcessLine(text, line) ==
    IF line.kind = "empty" THEN [text |-> text, ctl |-> "continue"]             \* if line:
    ELSE IF line.kind = "invalid" THEN [text |-> text, ctl |-> "continue"]      \* except JSONDecodeError
    ELSE IF line.kind = "nonobject" THEN [text |-> text, ctl |-> "raise"]       \* TypeError / AttributeError
    ELSE IF line.resp = "nonstring" THEN [text |-> text, ctl |-> "raise"]       \* str += non-str: TypeError
    ELSE LET t == IF line.resp = "string" THEN text \o line.text ELSE text
         IN  [text |-> t, ctl |-> IF line.done = "true" THEN "break" ELSE "continue"]

\* the whole loop and the return, for a stream that is known in advance
RECURSIVE Consume(_, _, _, _)
Consume(text, lines, pos, sawDone) ==
    IF pos > Len(lines) THEN [outcome |-> "returned", text |-> Strip(text), sawDone |-> sawDone]
    ELSE LET r == ProcessLine(text, lines[pos])
         IN  CASE r.ctl = "raise" -> [outcome |-> "raised", text |-> <<>>, sawDone |-> sawDone]
               [] r.ctl = "break" -> [outcome |-> "returned", text |-> Strip(r.text), sawDone |-> TRUE]
               [] OTHER           -> Consume(r.text, lines, pos + 1, sawDone)

CallOllama(lines) == Consume(<<>>, lines, 1, FALSE)

---------------------------------------------------------------------------
(* count_words_with_ollama: the integer extracted from the response *)

StrIsDigit    == {"0", "2", "4", "sup2"}     \* characters for which str.isdigit() holds
DecimalDigits == {"0", "2", "4"}             \* characters int() accepts
DigitValue(c) == CASE c = "0" -> 0 [] c = "2" -> 2 [] c = "4" -> 4 [] OTHER -> 0 - 1

\* str.isdigit
IsDigit(c) == c \in StrIsDigit

\* FilterDigits with a fault: only the first run of digits is taken
RECURSIVE TakeDigits(_)
TakeDigits(s) == IF s = <<>> \/ ~IsDigit(Head(s)) THEN <<>> ELSE <<Head(s)>> \o TakeDigits(Tail(s))
RECURSIVE DropNonDigits(_)
DropNonDigits(s) == IF s = <<>> \/ IsDigit(Head(s)) THEN s ELSE DropNonDigits(Tail(s))
FirstDigitRun(s) == TakeDigits(DropNonDigits(s))

\* "".join(filter(str.isdigit, s))
FilterDigits(s) == SelectSeq(s, IsDigit)

\* int(s): [ok |-> FALSE] stands for ValueError
RECURSIVE IntOf(_, _)
IntOf(s, acc) == IF s = <<>> THEN acc ELSE IntOf(Tail(s), 10 * acc + DigitValue(Head(s)))
ParseInt(s) ==
    IF s = <<>> \/ \E i \in 1..Len(s) : s[i] \notin DecimalDigits
    THEN [ok |-> FALSE, value |-> 0]
    ELSE [ok |-> TRUE, value |-> IntOf(s, 0)]

\* lines 119-125: try: int(...) except ValueError: 0
ParseWordCount(response) ==
    LET r == ParseInt(FilterDigits(response))
    IN  IF r.ok THEN r.value ELSE 0

---------------------------------------------------------------------------
(* Files *)

NoFile  == [exists |-> FALSE, data |-> <<>>]
File(d) == [exists |-> TRUE, data |-> d]

\* AppendFile with a fault: the file is opened with "w"
TruncateWrite(f, data) == File(data)

\* open(name, "a") ... write(data): the file is created when it is missing
AppendFile(f, data) == IF f.exists THEN File(f.data \o data) ELSE File(data)

\* os.rename("book.txt", archive_name) on the set of archive files, each
\* [name, data]: a file already called archive_name is replaced, as os.rename
\* does on POSIX systems
RenameInto(arch, name, data) ==
    {a \in arch : a.name # name} \cup {[name |-> name, data |-> data]}

ArchiveNames(arch) == {a.name : a \in arch}

\* the two writes of write_chapter_to_book, lines 101-103
ChapterBlock(number, title, text) ==
    <<"\n", "\n", "### Chapter ">> \o number \o <<":", " ">> \o title \o <<"\n", "\n">>
        \o text \o <<"\n">>

\* ParseOutline with a fault: the fields are kept as read
ParseOutlineVerbatim(rows) ==
    LET kept == SelectSeq(rows, LAMBDA r : Len(r) >= 3)
    IN  [i \in 1..Len(kept) |-> <<kept[i][1], kept[i][2], kept[i][3]>>]

\* lines 176-185: rows of fewer than three fields are skipped, fields are stripped
ParseOutline(rows) ==
    LET kept == SelectSeq(rows, LAMBDA r : Len(r) >= 3)
    IN  [i \in 1..Len(kept) |-> <<Strip(kept[i][1]), Strip(kept[i][2]), Strip(kept[i][3])>>]

\* MoreChapters with a fault: the final chapter is acknowledged too
MoreChaptersInclusive(written, total) == written <= total
\* line 233: if chapters_written < total_chapters
MoreChapters(written, total) == written < total

---------------------------------------------------------------------------
(* The environment of a run: input files and the endpoint's replies *)

\* rows of outline.txt as csv.reader yields them
RowPadded == << <<" ", "1">>, <<"A", " ">>, <<"s">> >>          \* " 1,A ,s"
RowExtra  == << <<"2">>, <<"B">>, <<"s">>, <<"x">> >>           \* "2,B,s,x"
RowShort  == << <<"3">>, <<"C">> >>                             \* "3,C"
OutlineRows  == {RowPadded, RowExtra, RowShort}
OutlineFiles == {NoFile} \cup {File(rows) : rows \in SeqsUpTo(OutlineRows, MaxRows)}

InputFiles == {NoFile, File(<<" ", "\n">>), File(<<"S", "\n">>)}

\* a transcript left by an earlier run
PriorBook == ChapterBlock(<<"0">>, <<"P">>, <<"p">>)

\* what requests.post and the stream give for one call:
\* a transport failure (RequestException), or a stream of lines
TransportFailure == [ok |-> FALSE, lines |-> <<>>]
Stream(lines)    == [ok |-> TRUE, lines |-> lines]
Replies ==
    { TransportFailure,
      Stream(<<Frag(<<" ", "a">>), EmptyLine, Frag(<<" ">>), DoneOnly, Frag(<<"b">>)>>),
      Stream(<<Frag(<<"4">>), InvalidJson, FragDone(<<"2">>, "true")>>),
      Stream(<<FragDone(<<"a">>, "false")>>),
      Stream(<<Frag(<<"a">>), NonObject, DoneOnly>>) }

---------------------------------------------------------------------------
(* main() *)

NoSummary == [printed |-> FALSE, text |-> <<>>]
NoCall    == [returned |-> FALSE, sawDone |-> FALSE]

\* the local state of a run at process start
RunLocalsAtStart ==
    /\ book_summary' = <<>>
    /\ chapters' = <<>>
    /\ total_chapters' = 0
    /\ chapters_written' = 0
    /\ word_count' = 0
    /\ book_so_far' = <<>>
    /\ final_summary' = NoSummary
    /\ callLog' = <<>>
    /\ lastCall' = NoCall

\* sys.exit(status), an uncaught exception (status 1) or falling off main (status 0)
Exit(status, cause) ==
    /\ pc' = "exited"
    /\ exitStatus' = status
    /\ endCause' = cause

\* lines 150-158: a new process starts; book.txt, if any, is archived
StartRun ==
    /\ pc \in {"idle", "exited"}
    /\ runs < MaxRuns
    /\ \E t \in now..MaxTime :
         /\ now' = t
         /\ runs' = runs + 1
         /\ RunLocalsAtStart
         /\ pc' = "load_input"
         /\ exitStatus' = 0 - 1
         /\ endCause' = ""
         /\ UNCHANGED <<inputTxt, outlineTxt, clientVars, countVars>>
         /\ IF book.exists
            THEN /\ archives' = RenameInto(archives, t, book.data)
                 /\ book' = NoFile
            ELSE UNCHANGED <<book, archives>>

\* LoadInput with a fault: an empty input.txt exits with status 1
LoadInputEmptyFails ==
    /\ pc = "load_input"
    /\ IF ~inputTxt.exists THEN Exit(1, "input_missing") /\ UNCHANGED book_summary
       ELSE IF Strip(inputTxt.data) = <<>> THEN Exit(1, "input_empty") /\ UNCHANGED book_summary
       ELSE /\ book_summary' = Strip(inputTxt.data)
            /\ pc' = "load_outline"
            /\ UNCHANGED <<exitStatus, endCause>>
    /\ UNCHANGED <<fsVars, runs, chapters, total_chapters, chapters_written, word_count,
                   book_so_far, final_summary, callLog, lastCall, clientVars, countVars>>

\* lines 160-170
LoadInput ==
    /\ pc = "load_input"
    /\ IF ~inputTxt.exists THEN Exit(1, "input_missing") /\ UNCHANGED book_summary
       ELSE IF Strip(inputTxt.data) = <<>> THEN Exit(0, "input_empty") /\ UNCHANGED book_summary
       ELSE /\ book_summary' = Strip(inputTxt.data)
            /\ pc' = "load_outline"
            /\ UNCHANGED <<exitStatus, endCause>>
    /\ UNCHANGED <<fsVars, runs, chapters, total_chapters, chapters_written, word_count,
                   book_so_far, final_summary, callLog, lastCall, clientVars, countVars>>

\* lines 172-195
LoadOutline ==
    /\ pc = "load_outline"
    /\ IF ~outlineTxt.exists
       THEN Exit(1, "outline_missing") /\ UNCHANGED <<chapters, total_chapters>>
       ELSE IF ParseOutline(outlineTxt.data) = <<>>
       THEN /\ Exit(0, "outline_empty")
            /\ chapters' = <<>>
            /\ UNCHANGED total_chapters
       ELSE /\ chapters' = ParseOutline(outlineTxt.data)
            /\ total_chapters' = Len(ParseOutline(outlineTxt.data))
            /\ pc' = "generate"
            /\ UNCHANGED <<exitStatus, endCause>>
    /\ UNCHANGED <<fsVars, runs, book_summary, chapters_written, word_count,
                   book_so_far, final_summary, callLog, lastCall, clientVars, countVars>>

\* OnTransportFailure with a fault: the failure is reported and the run goes on
OnTransportFailureContinue(nextPc) == pc' = nextPc /\ UNCHANGED <<exitStatus, endCause>>
\* lines 51-53: except RequestException: print, sys.exit(1)
OnTransportFailure(nextPc) == Exit(1, "transport")

\* one entry of the call history: which call, and how it ended
\* ("transport_failure" | "raised" | "returned")
Called(kind, chapter, reply) ==
    [kind |-> kind, chapter |-> chapter,
     outcome |-> IF ~reply.ok THEN "transport_failure" ELSE CallOllama(reply.lines).outcome]
Returned(r) == [returned |-> TRUE, sawDone |-> r.sawDone]

\* lines 199-218: one chapter is generated and appended (write_chapter_to_book)
Generate ==
    /\ pc = "generate"
    /\ LET ch  == chapters[chapters_written + 1]
           ctx == IF book.exists THEN book.data ELSE <<>>
       IN  /\ book_so_far' = ctx
           /\ \E reply \in Replies :
                LET r == CallOllama(reply.lines)
                IN  /\ callLog' = Append(callLog, Called("generate", chapters_written + 1, reply))
                    /\ IF ~reply.ok
                       THEN /\ OnTransportFailure("count")
                            /\ UNCHANGED <<book, chapters_written, lastCall>>
                       ELSE IF r.outcome = "raised"
                       THEN /\ Exit(1, "exception")
                            /\ UNCHANGED <<book, chapters_written, lastCall>>
                       ELSE /\ book' = AppendFile(book, ChapterBlock(ch[1], ch[2], r.text))
                            /\ chapters_written' = chapters_written + 1
                            /\ lastCall' = Returned(r)
                            /\ pc' = "count"
                            /\ UNCHANGED <<exitStatus, endCause>>
    /\ UNCHANGED <<now, archives, inputTxt, outlineTxt, runs, book_summary,
                   chapters, total_chapters, word_count, final_summary,
                   clientVars, countVars>>

\* lines 220-233: the transcript is read back and its words are counted
Count ==
    /\ pc = "count"
    /\ \E reply \in Replies :
         LET r == CallOllama(reply.lines)
         IN  /\ callLog' = Append(callLog, Called("count", chapters_written, reply))
             /\ IF ~reply.ok
                THEN /\ OnTransportFailure("acknowledge")
                     /\ UNCHANGED <<word_count, lastCall>>
                ELSE IF r.outcome = "raised"
                THEN /\ Exit(1, "exception")
                     /\ UNCHANGED <<word_count, lastCall>>
                ELSE /\ word_count' = ParseWordCount(r.text)
                     /\ lastCall' = Returned(r)
                     /\ pc' = IF MoreChapters(chapters_written, total_chapters)
                              THEN "acknowledge" ELSE "summarize"
                     /\ UNCHANGED <<exitStatus, endCause>>
    /\ UNCHANGED <<fsVars, runs, book_summary, chapters, total_chapters, chapters_written,
                   book_so_far, final_summary, clientVars, countVars>>

\* lines 233-242: the acknowledge call and time.sleep(1)
Acknowledge ==
    /\ pc = "acknowledge"
    /\ \E reply \in Replies :
         LET r == CallOllama(reply.lines)
         IN  /\ callLog' = Append(callLog, Called("acknowledge", chapters_written, reply))
             /\ IF ~reply.ok
                THEN /\ OnTransportFailure("generate")
                     /\ UNCHANGED <<now, lastCall>>
                ELSE IF r.outcome = "raised"
                THEN /\ Exit(1, "exception")
                     /\ UNCHANGED <<now, lastCall>>
                ELSE /\ now' = now + 1
                     /\ lastCall' = Returned(r)
                     /\ pc' = "generate"
                     /\ UNCHANGED <<exitStatus, endCause>>
    /\ UNCHANGED <<book, archives, inputTxt, outlineTxt, runs, book_summary,
                   chapters, total_chapters, chapters_written, word_count,
                   book_so_far, final_summary, clientVars, countVars>>

\* lines 244-253: the summary of the whole transcript, then main returns
Summarize ==
    /\ pc = "summarize"
    /\ \E reply \in Replies :
         LET r == CallOllama(reply.lines)
         IN  /\ callLog' = Append(callLog, Called("summarize", 0, reply))
             /\ IF ~reply.ok
                THEN /\ OnTransportFailure("done")
                     /\ UNCHANGED <<final_summary, lastCall>>
                ELSE IF r.outcome = "raised"
                THEN /\ Exit(1, "exception")
                     /\ UNCHANGED <<final_summary, lastCall>>
                ELSE /\ final_summary' = [printed |-> TRUE, text |-> r.text]
                     /\ lastCall' = Returned(r)
                     /\ Exit(0, "complete")
    /\ UNCHANGED <<fsVars, runs, book_summary, chapters, total_chapters, chapters_written,
                   word_count, book_so_far, clientVars, countVars>>

ClientIdle ==
    /\ cl_pc = "idle" /\ cl_lines = <<>> /\ cl_pos = 1
    /\ generated_text = <<>> /\ cl_result = <<>>

CountIdle == wc_pc = "idle" /\ generated_response = <<>> /\ wc_result = 0

Init ==
    /\ now = 0
    /\ book \in {NoFile, File(PriorBook)}
    /\ archives = {}
    /\ inputTxt \in InputFiles
    /\ outlineTxt \in OutlineFiles
    /\ runs = 0
    /\ pc = "idle"
    /\ book_summary = <<>>
    /\ chapters = <<>>
    /\ total_chapters = 0
    /\ chapters_written = 0
    /\ word_count = 0
    /\ book_so_far = <<>>
    /\ final_summary = NoSummary
    /\ exitStatus = 0 - 1
    /\ endCause = ""
    /\ callLog = <<>>
    /\ lastCall = NoCall
    /\ ClientIdle
    /\ CountIdle

Next ==
    \/ StartRun
    \/ LoadInput
    \/ LoadOutline
    \/ Generate
    \/ Count
    \/ Acknowledge
    \/ Summarize

Spec == Init /\ [][Next]_vars

---------------------------------------------------------------------------
(* call_ollama_api line by line: lines 55-73 *)

ClientLines ==
    { EmptyLine, InvalidJson, NonObject, NullResponse,
      Frag(<<" ", "a">>), FragDone(<<"b", " ">>, "false"), DoneOnly,
      FragDone(<<"c">>, "true"), FragDone(<<"d">>, "nonbool") }

\* the driver is not running
DriverIdle ==
    /\ now = 0 /\ book = NoFile /\ archives = {}
    /\ inputTxt = NoFile /\ outlineTxt = NoFile
    /\ runs = 0 /\ pc = "idle" /\ book_summary = <<>> /\ chapters = <<>>
    /\ total_chapters = 0 /\ chapters_written = 0 /\ word_count = 0
    /\ book_so_far = <<>> /\ final_summary = NoSummary
    /\ exitStatus = 0 - 1 /\ endCause = "" /\ callLog = <<>> /\ lastCall = NoCall

\* requests.post succeeded; generated_text = "" (line 55)
InitClient ==
    /\ DriverIdle
    /\ CountIdle
    /\ cl_pc = "iterating"
    /\ cl_lines \in SeqsUpTo(ClientLines, MaxLines)
    /\ cl_pos = 1
    /\ generated_text = <<>>
    /\ cl_result = <<>>

\* lines 56-69: one line of the stream; a break leads to the return of line 73
ClientLine ==
    /\ cl_pc = "iterating"
    /\ cl_pos <= Len(cl_lines)
    /\ LET r == ProcessLine(generated_text, cl_lines[cl_pos])
       IN  /\ generated_text' = r.text
           /\ CASE r.ctl = "raise" ->
                     cl_pc' = "raised" /\ UNCHANGED <<cl_pos, cl_result>>
                [] r.ctl = "break" ->
                     cl_pc' = "returned" /\ cl_result' = Strip(r.text) /\ UNCHANGED cl_pos
                [] OTHER ->
                     cl_pos' = cl_pos + 1 /\ UNCHANGED <<cl_pc, cl_result>>
    /\ UNCHANGED <<cl_lines, fsVars, runVars, countVars>>

\* the stream is exhausted: the for loop ends and line 73 returns
ClientStreamEnd ==
    /\ cl_pc = "iterating"
    /\ cl_pos > Len(cl_lines)
    /\ cl_pc' = "returned"
    /\ cl_result' = Strip(generated_text)
    /\ UNCHANGED <<cl_lines, cl_pos, generated_text, fsVars, runVars, countVars>>

NextClient == ClientLine \/ ClientStreamEnd

SpecClient == InitClient /\ [][NextClient]_vars

---------------------------------------------------------------------------
(* count_words_with_ollama on a given response: lines 119-125 *)

CountChars == {"4", "2", "0", "sup2", "a", " "}

InitCount ==
    /\ DriverIdle
    /\ ClientIdle
    /\ wc_pc = "parse"
    /\ generated_response \in SeqsUpTo(CountChars, MaxLen)
    /\ wc_result = 0

CountParse ==
    /\ wc_pc = "parse"
    /\ wc_result' = ParseWordCount(generated_response)
    /\ wc_pc' = "parsed"
    /\ UNCHANGED <<generated_response, fsVars, runVars, clientVars>>

NextCount == CountParse

SpecCount == InitCount /\ [][NextCount]_vars

---------------------------------------------------------------------------
(* Vocabulary of the properties *)

SetMin(S) == CHOOSE x \in S : \A y \in S : x <= y
SetMax(S) == CHOOSE x \in S : \A y \in S : x >= y

\* the k-th smallest element of a set of integers
Kth(S, k) == CHOOSE x \in S : Cardinality({y \in S : y <= x}) = k

IsPrefix(s, t) == Len(s) <= Len(t) /\ SubSeq(t, 1, Len(s)) = s

\* s without its leading and trailing whitespace, by positions
Trimmed(s) ==
    LET black == {i \in 1..Len(s) : s[i] \notin Whitespace}
    IN  IF black = {} THEN <<>> ELSE SubSeq(s, SetMin(black), SetMax(black))

Data(f) == IF f.exists THEN f.data ELSE <<>>

\* the chapter blocks of a transcript: one per heading marker
HeadPos(data)  == {i \in 1..Len(data) : data[i] = "### Chapter "}
NumBlocks(f)   == Cardinality(HeadPos(Data(f)))
LineEnd(data, p) == SetMin({j \in p..(Len(data) + 1) : j = Len(data) + 1 \/ data[j] = "\n"})
HeadingLines(data) ==
    [k \in 1..Cardinality(HeadPos(data)) |->
        LET p == Kth(HeadPos(data), k) IN SubSeq(data, p, LineEnd(data, p) - 1)]

Completed == pc = "exited" /\ final_summary.printed

LastCallMade == callLog[Len(callLog)]

\* the rows of outline.txt that have at least three fields
UsableRows == {i \in 1..Len(outlineTxt.data) : Len(outlineTxt.data[i]) >= 3}
AllRowsUsable == outlineTxt.exists /\ UsableRows = 1..Len(outlineTxt.data)

---------------------------------------------------------------------------
(* C1 *)

\* C1, as stated: when every row of the outline has at least three fields, a
\* completed run leaves exactly one block per row in book.txt, in row order,
\* and the i-th heading is "### Chapter <number>: <title>" with the number
\* and the title of the i-th row verbatim.
C1_HeadingsVerbatim ==
    (Completed /\ AllRowsUsable) =>
        /\ book.exists
        /\ HeadingLines(book.data) =
             [i \in 1..Len(outlineTxt.data) |->
                 <<"### Chapter ">> \o outlineTxt.data[i][1] \o <<":", " ">>
                     \o outlineTxt.data[i][2]]

\* C1, amended: the same, with the number and the title of the i-th row
\* stripped of their leading and trailing whitespace.
C1_HeadingsStripped ==
    (Completed /\ AllRowsUsable) =>
        /\ book.exists
        /\ NumBlocks(book) = Len(outlineTxt.data)
        /\ HeadingLines(book.data) =
             [i \in 1..Len(outlineTxt.data) |->
                 <<"### Chapter ">> \o Trimmed(outlineTxt.data[i][1]) \o <<":", " ">>
                     \o Trimmed(outlineTxt.data[i][2])]

\* a run over two identical rows with padded fields has completed
C1_Witness ==
    /\ Completed /\ AllRowsUsable
    /\ outlineTxt.data = <<RowPadded, RowPadded>>
    /\ NumBlocks(book) = 2

---------------------------------------------------------------------------
(* C2 *)

\* C2: over any sequence of runs no archived transcript is ever lost or
\* replaced, a run that finds book.txt renames it to an archive name of its
\* own and starts with no book.txt, and the context of the first chapter of
\* every run is empty.
C2_NeverOverwritten ==
    [][ /\ \A a \in archives : a \in archives'
        /\ (runs' = runs + 1 /\ book.exists) =>
              /\ ~book'.exists
              /\ \E a \in archives' :
                    a.data = book.data /\ a.name \notin ArchiveNames(archives)
        /\ (Len(callLog') > Len(callLog) /\ callLog'[Len(callLog')].kind = "generate"
               /\ callLog'[Len(callLog')].chapter = 1) => book_so_far' = <<>>
      ]_vars

---------------------------------------------------------------------------
(* C3, C4 *)

WellFormed(line) ==
    /\ line.kind = "object"
    /\ line.resp \in {"absent", "string"}
    /\ line.done \in {"absent", "true", "false"}
Terminal(line)   == line.kind = "object" /\ line.done = "true"
Malformed(line)  == line.kind \in {"invalid", "nonobject"}

AllWellFormed(lines) == \A i \in 1..Len(lines) : WellFormed(lines[i])
TerminalAt(lines)    == {i \in 1..Len(lines) : Terminal(lines[i])}

\* the response texts of lines 1..k, concatenated in order
RECURSIVE ResponsesUpTo(_, _)
ResponsesUpTo(lines, k) ==
    IF k = 0 THEN <<>>
    ELSE ResponsesUpTo(lines, k - 1)
            \o (IF lines[k].resp = "string" THEN lines[k].text ELSE <<>>)

\* C3: on a stream of well-formed fragments that holds a terminal fragment
\* (done = true) the client never fails, never reads past the first terminal
\* fragment, and returns the trimmed concatenation of the response texts of
\* the fragments up to and including the first terminal one.
C3_ConcatUpToTerminal ==
    (AllWellFormed(cl_lines) /\ TerminalAt(cl_lines) # {}) =>
        /\ cl_pc # "raised"
        /\ cl_pos <= SetMin(TerminalAt(cl_lines))
        /\ cl_pc = "returned" =>
              cl_result = Trimmed(ResponsesUpTo(cl_lines, SetMin(TerminalAt(cl_lines))))

\* the client returned at a terminal fragment that carries a response and is
\* followed by another fragment with a response, and trimming changed the text
C3_Witness ==
    /\ cl_pc = "returned"
    /\ AllWellFormed(cl_lines) /\ TerminalAt(cl_lines) # {}
    /\ LET k == SetMin(TerminalAt(cl_lines))
       IN  /\ cl_lines[k].resp = "string"
           /\ k < Len(cl_lines)
           /\ cl_lines[k + 1].resp = "string"
           /\ cl_result # ResponsesUpTo(cl_lines, k)
           /\ cl_result # <<>>

\* the stream without its malformed lines
ValidOnly(lines) == SelectSeq(lines, LAMBDA l : ~Malformed(l))

\* C4: a malformed line (invalid JSON, or valid JSON that is no object) is
\* never fatal, and the client returns what it returns for the stream without
\* the malformed lines.  Stated for streams whose other lines are empty or
\* well-formed fragments.
C4_MalformedSkipped ==
    (\A i \in 1..Len(cl_lines) :
        Malformed(cl_lines[i]) \/ WellFormed(cl_lines[i]) \/ cl_lines[i].kind = "empty") =>
        /\ cl_pc # "raised"
        /\ cl_pc = "returned" =>
              cl_result = CallOllama(ValidOnly(cl_lines)).text

\* The part of C4 that the code keeps: lines that are not JSON at all are
\* skipped, in streams whose other lines are empty or well-formed fragments.
InvalidJsonSkipped ==
    (\A i \in 1..Len(cl_lines) :
        cl_lines[i].kind \in {"invalid", "empty"} \/ WellFormed(cl_lines[i])) =>
        /\ cl_pc # "raised"
        /\ cl_pc = "returned" =>
              cl_result = CallOllama(ValidOnly(cl_lines)).text

---------------------------------------------------------------------------
(* C5 *)

RECURSIVE Pow10(_)
Pow10(n) == IF n = 0 THEN 1 ELSE 10 * Pow10(n - 1)

RECURSIVE PlaceValueSum(_, _, _)
PlaceValueSum(s, S, k) ==
    IF k = 0 THEN 0
    ELSE PlaceValueSum(s, S, k - 1)
            + DigitValue(s[Kth(S, k)]) * Pow10(Cardinality(S) - k)

\* C5: the count is the decimal value of the digit characters of the
\* response, read in order, and 0 when there is no digit character or one of
\* them is no decimal digit.
C5_CountFromDigits ==
    wc_pc = "parsed" =>
        LET S == {i \in 1..Len(generated_response) : generated_response[i] \in StrIsDigit}
        IN  wc_result =
               IF S = {} \/ \E i \in S : generated_response[i] \notin DecimalDigits
               THEN 0
               ELSE PlaceValueSum(generated_response, S, Cardinality(S))

\* 42 was extracted from a response whose digits are separated by other text
C5_Witness ==
    /\ wc_pc = "parsed"
    /\ generated_response = <<"4", "a", "2">>
    /\ wc_result = 42

---------------------------------------------------------------------------
(* C6 *)

Blank(s) == \A i \in 1..Len(s) : s[i] \in Whitespace

TransportFailed ==
    callLog # <<>> /\ LastCallMade.outcome = "transport_failure"

\* the exit status the claim gives to a run that ends without an uncaught
\* exception, read from the files and the call history
ClaimedStatus ==
    IF ~inputTxt.exists THEN 1
    ELSE IF Blank(inputTxt.data) THEN 0
    ELSE IF ~outlineTxt.exists THEN 1
    ELSE IF UsableRows = {} THEN 0
    ELSE IF TransportFailed THEN 1
    ELSE 0

---------------------------------------------------------------------------
(* C7 *)

\* C7: a run that ends on a missing or empty input file has made no inference
\* call and written no block; a call that meets a transport failure is the
\* last call of its run, the run has exited with status 1 and printed no
\* summary, and the transcript holds the blocks of the chapters before the
\* failing generation call (of the chapters up to the one being counted or
\* acknowledged), and no other.
C7_FatalEndsRun ==
    /\ (pc = "exited" /\ endCause \in {"input_missing", "input_empty",
                                        "outline_missing", "outline_empty"}) =>
          /\ callLog = <<>>
          /\ NumBlocks(book) = 0
          /\ ~final_summary.printed
    /\ \A i \in 1..Len(callLog) :
          callLog[i].outcome = "transport_failure" =>
             /\ i = Len(callLog)
             /\ pc = "exited" /\ exitStatus = 1
             /\ ~final_summary.printed
             /\ NumBlocks(book) =
                   IF callLog[i].kind = "generate" THEN callLog[i].chapter - 1
                   ELSE IF callLog[i].kind = "summarize" THEN Cardinality(UsableRows)
                   ELSE callLog[i].chapter

\* the generation call of chapter 2 met a transport failure
C7_Witness ==
    /\ pc = "exited"
    /\ TransportFailed
    /\ LastCallMade.kind = "generate" /\ LastCallMade.chapter = 2
    /\ NumBlocks(book) = 1

---------------------------------------------------------------------------
(* C8 *)

\* the j-th call of a run over n chapters
ExpectedCall(j, n) ==
    IF j = 3 * n THEN [kind |-> "summarize", chapter |-> 0]
    ELSE [kind    |-> <<"generate", "count", "acknowledge">>[((j - 1) % 3) + 1],
          chapter |-> ((j - 1) \div 3) + 1]

\* C8: the calls of a run over N chapters are, in order: generate i, count i
\* and, for i < N only, acknowledge i, for i = 1..N, then one summarize; block
\* i is in the transcript when chapter i is counted and acknowledged, all N
\* blocks are when the summary is asked for; a completed run has made exactly
\* 3N calls.
C8_CallOrder ==
    /\ Len(callLog) <= 3 * Cardinality(UsableRows)
    /\ \A j \in 1..Len(callLog) :
          /\ callLog[j].kind = ExpectedCall(j, Cardinality(UsableRows)).kind
          /\ callLog[j].chapter = ExpectedCall(j, Cardinality(UsableRows)).chapter
    /\ callLog # <<>> =>
          /\ LastCallMade.kind \in {"count", "acknowledge"} =>
                NumBlocks(book) = LastCallMade.chapter
          /\ LastCallMade.kind = "summarize" => NumBlocks(book) = Cardinality(UsableRows)
    /\ Completed => Len(callLog) = 3 * Cardinality(UsableRows)

\* a run over two chapters has completed with six calls
C8_Witness ==
    /\ Completed
    /\ Cardinality(UsableRows) = 2
    /\ Len(callLog) = 6

---------------------------------------------------------------------------
(* C9 *)

ReturnedGenerations ==
    Cardinality({i \in 1..Len(callLog) :
                    callLog[i].kind = "generate" /\ callLog[i].outcome = "returned"})

\* a run has started: the archive step of lines 153-158 is done
TranscriptStarted == pc # "idle"

\* C9: once a run has started (the old transcript archived), book.txt only
\* grows: every
\* step of the run keeps the old content as a prefix; the blocks it holds
\* are as many as the generation calls that returned; a generation call that
\* returns appends one block (separator, heading line, blank line, generated
\* body, newline) and every other step leaves book.txt as it is.
C9_AppendOnly ==
    /\ [](TranscriptStarted => NumBlocks(book) = ReturnedGenerations)
    /\ [][ runs' = runs =>
            /\ IsPrefix(Data(book), Data(book'))
            /\ book.exists => book'.exists
            /\ IF /\ Len(callLog') > Len(callLog)
                  /\ callLog'[Len(callLog')].kind = "generate"
                  /\ callLog'[Len(callLog')].outcome = "returned"
               THEN \E reply \in Replies :
                      /\ reply.ok
                      /\ book'.data =
                           Data(book) \o <<"\n", "\n", "### Chapter ">>
                              \o chapters[chapters_written'][1] \o <<":", " ">>
                              \o chapters[chapters_written'][2] \o <<"\n", "\n">>
                              \o CallOllama(reply.lines).text \o <<"\n">>
               ELSE book' = book
         ]_vars

\* a run has written two blocks and then counted, acknowledged and summarized
C9_Witness ==
    /\ Completed
    /\ NumBlocks(book) = 2
    /\ ReturnedGenerations = 2

---------------------------------------------------------------------------
(* C10 *)

\* C10: a call returns to the driver only after a terminal fragment
\* (done = true) of its stream was processed.
C10_ReturnsAfterTerminal == lastCall.returned => lastCall.sawDone
===========================================================================
